---- MODULE Spec2Model ----
(***************************************************************************)
(* Books CRUD API with an SSE event stream (app/main.py, app/crud.py,      *)
(* app/auth.py, app/models.py, app/schemas.py).                            *)
(*                                                                         *)
(* Request handlers are coroutines of one asyncio event loop.  The         *)
(* dependencies of a route (get_current_user) are resolved before the      *)
(* handler body; the body runs on the loop and gives it up only at an      *)
(* await that suspends.  `loop` names the coroutine that holds the loop.   *)
(***************************************************************************)
EXTENDS Integers, Sequences, FiniteSets, TLC

\* ---------------------------------------------------------------- bounds
MaxOps == 2          \* requests accepted in one behaviour
NumTasks == 2        \* request handlers in flight at once
NumConsumers == 2    \* SSE connections
MaxSkip == 2         \* largest skip a List request carries
MaxLimit == 2        \* largest limit a List request carries

Tasks == 1 .. NumTasks
Consumers == 1 .. NumConsumers
Ids == 1 .. MaxOps   \* ids a request may name (no more than MaxOps books exist)

\* ------------------------------------------------------------ data model
Null == "None"                       \* Python's None in a column or a field
Fields == {"title", "author", "published_date", "summary", "genre"}
Titles == {"Dune", "Emma"}
Authors == {"Herbert"}
Genres == {"scifi"}

\* models.py: title and author are nullable=False, the others nullable=True
NotNullable == {"title", "author"}

\* schemas.py BookCreate: title, author required strings; the rest default None
BookCreate ==
  { [title |-> t, author |-> a, published_date |-> Null, summary |-> Null, genre |-> Null] :
      t \in Titles, a \in Authors }

\* schemas.py BookUpdate: every field Optional, default None.  A request body
\* is the partial map of the fields it actually carries (the fields set).
UpdateValues(f) ==
  CASE f = "title" -> {"Emma", Null}
    [] f = "author" -> {Null}
    [] f = "genre" -> {"scifi", Null}
    [] OTHER -> {}
BookUpdate ==
  UNION { [S -> UNION {UpdateValues(f) : f \in S}] : S \in SUBSET {"title", "author", "genre"} }
UpdateBodies ==
  { u \in BookUpdate : Cardinality(DOMAIN u) <= 1 /\ \A f \in DOMAIN u : u[f] \in UpdateValues(f) }

\* ------------------------------------------------------------------ auth
\* A bearer token as get_current_user sees it: whether one was supplied,
\* whether jwt.decode accepts it (signature and expiry), and the "sub" claim
\* of its payload ("" when the payload has none).
FAKE_USERNAME == "testuser"
Tokens ==
  { [supplied |-> FALSE, valid |-> FALSE, sub |-> ""],
    [supplied |-> TRUE,  valid |-> TRUE,  sub |-> FAKE_USERNAME],
    [supplied |-> TRUE,  valid |-> TRUE,  sub |-> ""],
    [supplied |-> TRUE,  valid |-> FALSE, sub |-> FAKE_USERNAME] }

\* jwt.decode raises JWTError on a bad signature or an expired token
JWTError(token) == ~token.valid

get_current_user_nosubcheck(token) ==
  IF ~token.supplied THEN [ok |-> FALSE, status |-> 401, detail |-> "Missing token"]
  ELSE IF JWTError(token) THEN [ok |-> FALSE, status |-> 401, detail |-> "Invalid or expired token"]
  ELSE [ok |-> TRUE, status |-> 200, detail |-> token.sub]

get_current_user(token) ==
  IF ~token.supplied THEN [ok |-> FALSE, status |-> 401, detail |-> "Missing token"]
  ELSE IF JWTError(token) THEN [ok |-> FALSE, status |-> 401, detail |-> "Invalid or expired token"]
  ELSE IF token.sub = "" THEN [ok |-> FALSE, status |-> 401, detail |-> "Invalid token payload"]
  ELSE [ok |-> TRUE, status |-> 200, detail |-> token.sub]

\* ----------------------------------------------------------------- store
\* The books table: a function from the ids of the live rows to the rows.
\* crud.py runs each call in one transaction on the calling thread.

\* db.commit(): the NOT NULL columns of models.py reject a None
IntegrityError(row) == \E f \in NotNullable : row[f] = Null

\* The id the store gives the next inserted row: one more than any it gave.
AssignId(next) == next

create_book(db, next, book_in) ==
  LET row == [id |-> AssignId(next)] @@ book_in
  IN  [db |-> (AssignId(next) :> row) @@ db, row |-> row]

\* .filter(Book.id == book_id).first(): <<row>>, or <<>> for None
get_book_by_id(db, book_id) ==
  IF book_id \in DOMAIN db THEN <<db[book_id]>> ELSE <<>>

\* setattr for every field of updates.dict(exclude_unset=True), then commit
SetFields(row, update_data) ==
  [f \in DOMAIN row |-> IF f \in DOMAIN update_data THEN update_data[f] ELSE row[f]]

update_book(db, db_book, updates) ==
  LET row == SetFields(db_book, updates)
  IN  IF IntegrityError(row)
      THEN [ok |-> FALSE, db |-> db, row |-> db_book]
      ELSE [ok |-> TRUE, db |-> [db EXCEPT ![db_book.id] = row], row |-> row]

delete_book_keep(db, db_book) == db

delete_book(db, db_book) ==
  [i \in DOMAIN db \ {db_book.id} |-> db[i]]

\* The orders in which a query without ORDER BY may return the rows
RowOrders(db) ==
  { o \in [1 .. Cardinality(DOMAIN db) -> DOMAIN db] :
      \A i, j \in DOMAIN o : i # j => o[i] # o[j] }

Min(a, b) == IF a < b THEN a ELSE b
Max(a, b) == IF a > b THEN a ELSE b

\* db.query(Book).offset(skip).limit(limit).all() over the rows in order o
get_books(db, o, skip, limit) ==
  [i \in 1 .. Max(Min(limit, Len(o) - skip), 0) |-> db[o[skip + i]]]

\* f"{request.url.path}?{urlencode(query_params)}": the path and the
\* key/value pairs of the query string, in the dict's order
urlencode(skip, limit) == <<<<"skip", skip>>, <<"limit", limit>>>>
Url(skip, limit) == <<[path |-> "/books/", query |-> urlencode(skip, limit)]>>

next_url_le(skip, limit, total_count) ==
  IF skip + limit <= total_count THEN Url(skip + limit, limit) ELSE <<>>

next_url(skip, limit, total_count) ==
  IF skip + limit < total_count THEN Url(skip + limit, limit) ELSE <<>>

prev_url(skip, limit) ==
  IF skip > 0 THEN Url(Max(skip - limit, 0), limit) ELSE <<>>

PaginatedBooks(db, o, skip, limit) ==
  [data |-> get_books(db, o, skip, limit),
   total_count |-> Cardinality(DOMAIN db),
   next_url |-> next_url(skip, limit, Cardinality(DOMAIN db)),
   prev_url |-> prev_url(skip, limit)]

\* ---------------------------------------------------------------- events
\* event_data of each handler (main.py): a dict; json.dumps renders it
created_event(book) == [action |-> "created", book_id |-> book.id, title |-> book.title]
read_event(book) == [action |-> "read", book_id |-> book.id, title |-> book.title]
updated_event(book) == [action |-> "updated", book_id |-> book.id, title |-> book.title]
deleted_event_titled(book_id, book) == [action |-> "deleted", book_id |-> book_id, title |-> book.title]
deleted_event(book_id, book) == [action |-> "deleted", book_id |-> book_id]

json_str(v) == IF v = Null THEN "null" ELSE "\"" \o v \o "\""
json_dumps(event_data) ==
  "{\"action\": " \o json_str(event_data.action)
     \o ", \"book_id\": " \o ToString(event_data.book_id)
     \o (IF "title" \in DOMAIN event_data
           THEN ", \"title\": " \o json_str(event_data.title) ELSE "")
     \o "}"
\* the SSE frame of event_generator: data: <json>\n\n
Frame(event_data) == "data: " \o json_dumps(event_data) \o "\n\n"

\* ----------------------------------------------------------- event queue
\* event_queue: one process-wide unbounded FIFO queue (maxsize 0)
full(q) == FALSE
publish(q, item) == Append(q, item)
consume(q) == [item |-> Head(q), rest |-> Tail(q)]

\* ----------------------------------------------------------------- state
VARIABLES
  books,       \* the books table
  nextId,      \* the id the store assigns next
  queue,       \* event_queue: the entries not yet dequeued, oldest first
  unfinished,  \* event_queue's count of entries put and not yet task_done
  loop,        \* the handler coroutine holding the event loop, 0 when none
  pc,          \* each handler's position: "idle", or "put" once past the store call
  local,       \* each handler's locals between the store call and the put
  resp,        \* the request the last step answered and the response it sent, if any
  opCount,     \* requests accepted so far
  cpc,         \* each SSE connection's position
  frames,      \* what each SSE connection has yielded, in order
  commits,     \* history: the calls whose store operation completed, in order
  published    \* history: every entry ever put on the queue, in order

vars == <<books, nextId, queue, unfinished, loop, pc, local, resp,
          opCount, cpc, frames, commits, published>>

storeVars == <<books, nextId>>
busVars == <<queue, unfinished, published>>
sseVars == <<cpc, frames>>

NoToken == [supplied |-> FALSE, valid |-> FALSE, sub |-> ""]
NoLocal == [event_data |-> [action |-> "none"]]
NoResp == [status |-> 0, op |-> "none", n |-> 0, book_id |-> 0, token |-> NoToken]

\* The table outlives the process (create_all keeps an existing table): at
\* startup it is empty or holds the rows of an earlier run.
InitialRows ==
  { <<>>,
    <<[id |-> 1, title |-> "Dune", author |-> "Herbert", published_date |-> Null,
       summary |-> Null, genre |-> Null]>> }

Init ==
  /\ books \in InitialRows
  /\ nextId = Len(books) + 1
  /\ queue = <<>>
  /\ unfinished = 0
  /\ loop = 0
  /\ pc = [t \in Tasks |-> "idle"]
  /\ local = [t \in Tasks |-> NoLocal]
  /\ resp = NoResp
  /\ opCount = 0
  /\ cpc = [c \in Consumers |-> "idle"]
  /\ frames = [c \in Consumers |-> <<>>]
  /\ commits = <<>>
  /\ published = <<>>

\* Between the crud call and `await event_queue.put` the handler has no
\* suspension point: it keeps the loop.
AfterCommitYield(t) == 0
AfterCommit(t) == t

\* `await event_queue.put(event_data)` returns without suspending unless the
\* queue is full
PutReadyDrained(q) == q = <<>>
PutReady(q) == ~full(q)

\* The response to a request: the request's route, number, book, token and
\* payload, then the status and the body
Response(op, n, book_id, tok, input, status, body) ==
  [status |-> status, op |-> op, n |-> n, book_id |-> book_id, token |-> tok,
   input |-> input, body |-> body]

\* ------------------------------------------------------------- handlers
\* A request arrives at handler t with bearer token tok.
\* Depends(get_current_user): an HTTPException answers the request before the
\* handler body is called; otherwise the body runs on the event loop.
Arrives(t) ==
  /\ pc[t] = "idle"
  /\ opCount < MaxOps
  /\ opCount' = opCount + 1

Unauthorized(t, op, tok) ==
  /\ ~get_current_user(tok).ok
  /\ resp' = Response(op, opCount + 1, 0, tok, <<>>, get_current_user(tok).status,
                      get_current_user(tok).detail)
  /\ UNCHANGED <<storeVars, busVars, sseVars, loop, pc, local, commits>>

Authorized(t, tok) ==
  /\ get_current_user(tok).ok
  /\ loop = 0

\* The handler answers without reaching a put
Answer(t, op, book_id, tok, input, status, body) ==
  /\ resp' = Response(op, opCount + 1, book_id, tok, input, status, body)
  /\ UNCHANGED <<busVars, sseVars, loop, pc, local, commits>>

\* raise HTTPException(404)
NotFound_returns(t, op, book_id, tok) == Answer(t, op, book_id, tok, <<>>, 200, "null")
NotFound(t, op, book_id, tok) == Answer(t, op, book_id, tok, <<>>, 404, "Book not found")
\* global_exception_handler
ServerError(t, op, book_id, tok, input) ==
  Answer(t, op, book_id, tok, input, 500, "An unexpected error occurred on the server.")

\* The store call is done; the handler goes on to its put
Committed(t, op, book_id, tok, input, event_data, status, result) ==
  /\ local' = [local EXCEPT ![t] =
                 [event_data |-> event_data,
                  resp |-> Response(op, opCount + 1, book_id, tok, input, status, result)]]
  /\ commits' = Append(commits, opCount + 1)
  /\ pc' = [pc EXCEPT ![t] = "put"]
  /\ loop' = AfterCommit(t)
  /\ resp' = NoResp
  /\ UNCHANGED <<busVars, sseVars>>

create_new_book(t) ==
  /\ Arrives(t)
  /\ \E tok \in Tokens :
       \/ Unauthorized(t, "create", tok)
       \/ /\ Authorized(t, tok)
          /\ \E book_in \in BookCreate :
               LET r == create_book(books, nextId, book_in)
               IN  /\ books' = r.db
                   /\ nextId' = nextId + 1
                   /\ Committed(t, "create", r.row.id, tok, book_in,
                               created_event(r.row), 201, <<r.row>>)

read_all_books(t) ==
  /\ Arrives(t)
  /\ \E tok \in Tokens :
       \/ Unauthorized(t, "list", tok)
       \/ /\ Authorized(t, tok)
          /\ \E skip \in 0 .. MaxSkip, limit \in 1 .. MaxLimit, o \in RowOrders(books) :
               Answer(t, "list", 0, tok, [skip |-> skip, limit |-> limit, order |-> o],
                      200, PaginatedBooks(books, o, skip, limit))
          /\ UNCHANGED storeVars

read_book_by_id(t) ==
  /\ Arrives(t)
  /\ \E tok \in Tokens :
       \/ Unauthorized(t, "get", tok)
       \/ /\ Authorized(t, tok)
          /\ \E book_id \in Ids :
               LET book == get_book_by_id(books, book_id)
               IN  IF book = <<>>
                   THEN NotFound(t, "get", book_id, tok)
                   ELSE Committed(t, "get", book_id, tok, <<>>, read_event(book[1]), 200, book)
          /\ UNCHANGED storeVars

update_book_by_id(t) ==
  /\ Arrives(t)
  /\ \E tok \in Tokens :
       \/ Unauthorized(t, "update", tok)
       \/ /\ Authorized(t, tok)
          /\ \E book_id \in Ids, updates \in UpdateBodies :
               LET book == get_book_by_id(books, book_id)
               IN  IF book = <<>>
                   THEN NotFound(t, "update", book_id, tok) /\ UNCHANGED storeVars
                   ELSE LET u == update_book(books, book[1], updates)
                        IN  IF u.ok
                            THEN /\ books' = u.db
                                 /\ nextId' = nextId
                                 /\ Committed(t, "update", book_id, tok, updates,
                                              updated_event(u.row), 200, <<u.row>>)
                            ELSE \* db.commit() raised
                                 ServerError(t, "update", book_id, tok, updates) /\ UNCHANGED storeVars

delete_book_by_id(t) ==
  /\ Arrives(t)
  /\ \E tok \in Tokens :
       \/ Unauthorized(t, "delete", tok)
       \/ /\ Authorized(t, tok)
          /\ \E book_id \in Ids :
               LET book == get_book_by_id(books, book_id)
               IN  IF book = <<>>
                   THEN NotFound(t, "delete", book_id, tok) /\ UNCHANGED storeVars
                   ELSE /\ books' = delete_book(books, book[1])
                        /\ nextId' = nextId
                        /\ Committed(t, "delete", book_id, tok, <<>>,
                                     deleted_event(book_id, book[1]), 204, <<>>)

\* await event_queue.put(event_data); return
Put(t) ==
  /\ pc[t] = "put"
  /\ loop = 0 \/ loop = t
  /\ PutReady(queue)
  /\ queue' = publish(queue, [n |-> local[t].resp.n, event_data |-> local[t].event_data])
  /\ published' = Append(published, [n |-> local[t].resp.n, event_data |-> local[t].event_data])
  /\ unfinished' = unfinished + 1
  /\ resp' = local[t].resp
  /\ local' = [local EXCEPT ![t] = NoLocal]
  /\ pc' = [pc EXCEPT ![t] = "idle"]
  /\ loop' = 0
  /\ UNCHANGED <<storeVars, sseVars, opCount, commits>>

\* ------------------------------------------------------------------ SSE
\* sse_endpoint: Depends(get_current_user), then the StreamingResponse runs
\* event_generator up to its first `await event_queue.get()`
sse_endpoint(c) ==
  /\ cpc[c] = "idle"
  /\ \E tok \in Tokens :
       LET u == get_current_user(tok)
       IN  IF u.ok
           THEN /\ cpc' = [cpc EXCEPT ![c] = "get"]
                /\ resp' = Response("sse", 0, 0, tok, <<>>, 200, "text/event-stream")
           ELSE /\ cpc' = cpc
                /\ resp' = Response("sse", 0, 0, tok, <<>>, u.status, u.detail)
  /\ UNCHANGED <<storeVars, busVars, loop, pc, local, opCount, frames, commits>>

\* event_data = await event_queue.get(); yield the frame
event_generator_peek(c) ==
  /\ cpc[c] = "get" /\ loop = 0
  /\ queue # <<>>
  /\ LET got == consume(queue)
     IN  /\ queue' = queue
         /\ frames' = [frames EXCEPT ![c] =
                         Append(@, [n |-> got.item.n, data |-> Frame(got.item.event_data)])]
  /\ cpc' = [cpc EXCEPT ![c] = "yield"]
  /\ resp' = NoResp
  /\ UNCHANGED <<storeVars, unfinished, published, loop, pc, local,
                 opCount, commits>>

event_generator(c) ==
  /\ cpc[c] = "get" /\ loop = 0
  /\ queue # <<>>
  /\ LET got == consume(queue)
     IN  /\ queue' = got.rest
         /\ frames' = [frames EXCEPT ![c] =
                         Append(@, [n |-> got.item.n, data |-> Frame(got.item.event_data)])]
  /\ cpc' = [cpc EXCEPT ![c] = "yield"]
  /\ resp' = NoResp
  /\ UNCHANGED <<storeVars, unfinished, published, loop, pc, local,
                 opCount, commits>>

\* the generator is resumed: event_queue.task_done(), back to the get
task_done(c) ==
  /\ cpc[c] = "yield" /\ loop = 0
  /\ unfinished' = unfinished - 1
  /\ cpc' = [cpc EXCEPT ![c] = "get"]
  /\ resp' = NoResp
  /\ UNCHANGED <<storeVars, queue, published, loop, pc, local,
                 opCount, frames, commits>>

\* the client goes away: the generator is closed where it is suspended
Disconnect(c) ==
  /\ cpc[c] \in {"get", "yield"}
  /\ cpc' = [cpc EXCEPT ![c] = "closed"]
  /\ resp' = NoResp
  /\ UNCHANGED <<storeVars, busVars, loop, pc, local, opCount,
                 frames, commits>>

Next ==
  \/ \E t \in Tasks : create_new_book(t)
  \/ \E t \in Tasks : read_all_books(t)
  \/ \E t \in Tasks : read_book_by_id(t)
  \/ \E t \in Tasks : update_book_by_id(t)
  \/ \E t \in Tasks : delete_book_by_id(t)
  \/ \E t \in Tasks : Put(t)
  \/ \E c \in Consumers : sse_endpoint(c)
  \/ \E c \in Consumers : event_generator(c)
  \/ \E c \in Consumers : task_done(c)
  \/ \E c \in Consumers : Disconnect(c)

Spec == Init /\ [][Next]_vars

\* The event loop runs every ready coroutine; requests, connections and
\* disconnections are the clients' and are not forced.
Fairness ==
  /\ \A t \in Tasks : WF_vars(Put(t))
  /\ \A c \in Consumers : WF_vars(event_generator(c)) /\ WF_vars(task_done(c))

FairSpec == Spec /\ Fairness

\* ================================================================ claims
GoodToken(tok) == tok.supplied /\ tok.valid /\ tok.sub # ""
Answered(r) == r.status # 0
Succeeded(r) == r.status \in {200, 201, 204}
ActionOf(op) ==
  CASE op = "create" -> "created" [] op = "get" -> "read"
    [] op = "update" -> "updated" [] op = "delete" -> "deleted"
EventsOf(n) == { i \in DOMAIN published : published[i].n = n }
InQueue(n) == { i \in DOMAIN queue : queue[i].n = n }
Deliveries(n) ==
  { d \in Consumers \X (1 .. MaxOps) :
      d[2] \in DOMAIN frames[d[1]] /\ frames[d[1]][d[2]].n = n }
Looping(c) == cpc[c] \in {"get", "yield"}

\* C1: a successful Create, Get-by-id, Update or Delete call has put exactly
\* one event on the queue, at its tail when the call returns; the event's
\* action is the call's, its book_id is the id of the book the call worked on
\* (for Create, the id of the row returned); a created/read/updated event
\* carries the title the store holds after the call, a deleted event carries
\* an action and a book_id and nothing else.
C1_OneEventPerSuccessfulCall ==
  (resp.op \in {"create", "get", "update", "delete"} /\ Succeeded(resp)) =>
    /\ Cardinality(EventsOf(resp.n)) = 1
    /\ published # <<>> /\ queue # <<>>
    /\ published[Len(published)].n = resp.n
    /\ queue[Len(queue)] = published[Len(published)]
    /\ LET e == published[Len(published)].event_data
           id == IF resp.op = "create" THEN resp.body[1].id ELSE resp.book_id
       IN  /\ e.action = ActionOf(resp.op)
           /\ e.book_id = id
           /\ IF resp.op = "delete"
              THEN DOMAIN e = {"action", "book_id"}
              ELSE /\ DOMAIN e = {"action", "book_id", "title"}
                   /\ id \in DOMAIN books
                   /\ e.title = books[id].title

C1_Witness ==
  /\ resp.op = "delete" /\ resp.status = 204
  /\ queue # <<>> /\ queue[Len(queue)].event_data.action = "deleted"

\* C2: a consumer that is looping in event_generator before an operation
\* starts receives the frame of that operation's event (or has disconnected),
\* whatever the number of connected consumers.
C2_ConnectedConsumerReceives ==
  \A c \in Consumers, n \in 1 .. MaxOps :
    []((Looping(c) /\ opCount < n) =>
         [](EventsOf(n) # {} => <>(Deliveries(n) \cap ({c} \X (1 .. MaxOps)) # {}
                                    \/ cpc[c] = "closed")))

C4_CommitOrderIsQueueOrder ==
  /\ Len(published) <= Len(commits)
  /\ \A i \in DOMAIN published : published[i].n = commits[i]
  /\ Len(commits) - Len(published) <= 1
  /\ \A t \in Tasks : pc[t] = "put" => commits[Len(commits)] = local[t].resp.n

C4_Witness ==
  \E t \in Tasks :
    /\ pc[t] = "put" /\ Len(published) >= 1
    /\ \E u \in Tasks \ {t} : pc[u] = "idle"

\* C5: List returns at most limit rows, those from offset skip of the rows
\* in the order the query gave them; total_count is the number of rows;
\* next_url is present iff skip + limit < total_count and then carries
\* skip + limit and limit; prev_url is present iff skip > 0 and then carries
\* max(skip - limit, 0) and limit.
C5_Pagination ==
  (resp.op = "list" /\ resp.status = 200) =>
    LET skip == resp.input.skip
        limit == resp.input.limit
        o == resp.input.order
        total == Cardinality(DOMAIN books)
        page == resp.body
    IN  /\ Len(page.data) <= limit
        /\ Len(page.data) = (IF total - skip < 0 THEN 0
                             ELSE IF total - skip < limit THEN total - skip ELSE limit)
        /\ \A i \in DOMAIN page.data : page.data[i] = books[o[skip + i]]
        /\ page.total_count = total
        /\ (page.next_url # <<>>) <=> (skip + limit < total)
        /\ page.next_url # <<>> =>
             page.next_url[1].query = <<<<"skip", skip + limit>>, <<"limit", limit>>>>
        /\ (page.prev_url # <<>>) <=> (skip > 0)
        /\ page.prev_url # <<>> =>
             page.prev_url[1].query =
               <<<<"skip", IF skip - limit > 0 THEN skip - limit ELSE 0>>, <<"limit", limit>>>>

C5_Witness ==
  /\ resp.op = "list" /\ resp.status = 200
  /\ resp.body.next_url # <<>> /\ Len(resp.body.data) = resp.input.limit

\* The update call a step made on an existing book: the one it committed, or
\* the one it answered with a server error
UpdateCalls ==
  { local'[t].resp : t \in { u \in Tasks : pc[u] = "idle" /\ pc'[u] = "put"
                                            /\ local'[u].resp.op = "update" } }
  \cup (IF opCount' = opCount + 1 /\ resp'.op = "update" /\ resp'.status = 500
        THEN {resp'} ELSE {})

\* C6: Update by id on an existing book sets exactly the fields present in
\* the request body to the supplied values, a supplied null included, and
\* leaves the absent fields, the id and every other book as they were.
C6_UpdateSetsSuppliedFields ==
  [][\A r \in UpdateCalls :
       books' = [books EXCEPT ![r.book_id] =
                   [f \in DOMAIN @ |-> IF f \in DOMAIN r.input THEN r.input[f] ELSE @[f]]]]_vars

C8_BadTokenIs401 ==
  [][(Answered(resp') /\ ~GoodToken(resp'.token)) =>
       /\ resp'.status = 401
       /\ UNCHANGED <<books, nextId, queue, unfinished, published, commits, frames,
                      pc, local, cpc, loop>>]_vars

C8_Witness ==
  /\ resp.status = 401 /\ resp.op = "delete"
  /\ resp.token.supplied /\ resp.token.valid /\ resp.token.sub = ""
  /\ books # <<>> /\ queue # <<>>

ArrivedCalls ==
  IF Answered(resp') THEN {resp'}
  ELSE { local'[t].resp : t \in { u \in Tasks : pc[u] = "idle" /\ pc'[u] = "put" } }

\* C10: Get-by-id, Update or Delete of an id with no row is answered 404 and
\* changes neither the store nor the queue; List changes neither.
C10_NotFoundHasNoEffect ==
  [][opCount' = opCount + 1 =>
       \A r \in ArrivedCalls :
         /\ (r.op \in {"get", "update", "delete"} /\ GoodToken(r.token)
               /\ r.book_id \notin DOMAIN books)
            => /\ r.status = 404
               /\ UNCHANGED <<books, nextId, queue, unfinished, published, commits>>
         /\ r.op = "list"
            => UNCHANGED <<books, nextId, queue, unfinished, published, commits>>]_vars

C10_Witness ==
  /\ resp.status = 404 /\ resp.op = "update"
  /\ books # <<>> /\ queue # <<>>

====
